---- MODULE Spec2Model ----
(***************************************************************************)
(* Model of the FamilyTree relationship store (src/app/graph_db.py).       *)
(*                                                                         *)
(* The store is two SQLite tables: people(name) and                        *)
(* relationships(id, type, person_a, person_b) with                        *)
(* UNIQUE(type, person_a, person_b).  The surrogate id is never read by    *)
(* the program, so the relationships table is modelled as the set of its   *)
(* (type, person_a, person_b) rows.  The connection's view of the tables   *)
(* is `people`/`edges`; what the database file holds is `committed`.       *)
(* A behaviour is the lifetime of one FamilyTree instance on a new file.   *)
(***************************************************************************)
EXTENDS Integers, Sequences, FiniteSets, TLC

\* ---------------------------------------------------------------- bounds

\* Most identifiers a caller passes in a set argument.
MaxSetSize == 2

\* Most add / remove / query calls in one behaviour, whatever their arguments.
MaxCalls == 1

\* Most calls in a behaviour all of whose calls are plain: single identifiers
\* for both sides and a kind of the Literal (or none).
MaxPlainCalls == 3

\* Most calls of any shape in a behaviour of SpecBulk.
MaxBulkCalls == 2

\* Most calls in a behaviour of SpecScopes, over all its with blocks.
MaxScopeCalls == 2

\* ------------------------------------------------------------- constants

\* The identifiers of the demo (src/app/app.py), in Python's string order
\* (sorted()).
SortedNames == <<"Alice", "Bob", "Charlie", "David">>

DemoNames == {SortedNames[i] : i \in 1..Len(SortedNames)}

\* The identifiers the callers of Spec and SpecBulk pass.
Names == DemoNames \ {"David"}

\* RelationshipType = Literal["Parent", "Sibling", "Partner"]
RelationshipType == {"Parent", "Sibling", "Partner"}

\* A value a caller can pass that is outside the Literal (Python does not
\* enforce type hints at run time).
OtherKinds == {"Cousin"}

\* remove_relationship's default type=None.
NoneType == "None"

\* ------------------------------------------------------- pure helpers

\* Position of a name in Python's string order.
Rank(n) == CHOOSE i \in 1..Len(SortedNames) : SortedNames[i] = n

\* sorted([pa, pb])
Sorted2(pa, pb) == IF Rank(pa) <= Rank(pb) THEN <<pa, pb>> ELSE <<pb, pa>>

\* {x} if isinstance(x, str) else set(x).  An argument is a record: a str
\* argument carries its one identifier, a set argument its members.
StrArg(n) == [isStr |-> TRUE, names |-> {n}]

SetArg(S) == [isStr |-> FALSE, names |-> S]

\* The arguments callers pass.  A set of one identifier is left out: it is
\* normalized to the very set its identifier gives as a str.
Args == {StrArg(n) : n \in Names}
          \cup {SetArg(S) : S \in {T \in SUBSET Names :
                                    Cardinality(T) # 1 /\ Cardinality(T) <= MaxSetSize}}

ToSet(x) == IF x.isStr THEN {CHOOSE n \in x.names : TRUE} ELSE x.names

\* The orders in which Python may iterate a set (hash order of str is
\* randomised per process): every permutation.
IterOrders(S) == {f \in [1..Cardinality(S) -> S] : \A i, j \in DOMAIN f : f[i] = f[j] => i = j}

\* Variant: zip(set_a, set_b), the two iterations advancing together.
PairsZip(oa, ob) ==
    [k \in 1..(IF Len(oa) <= Len(ob) THEN Len(oa) ELSE Len(ob)) |-> <<oa[k], ob[k]>>]

\* for pa in set_a: for pb in set_b: the pairs in visiting order.
Pairs(oa, ob) ==
    [k \in 1..(Len(oa) * Len(ob)) |->
        <<oa[((k - 1) \div Len(ob)) + 1], ob[((k - 1) % Len(ob)) + 1]>>]

\* Variant: every kind is sorted, Parent included.
OrderEndpointsSortAll(type, pa, pb) == Sorted2(pa, pb)

\* Variant: no kind is sorted.
OrderEndpointsUnsorted(type, pa, pb) == <<pa, pb>>

\* if type in ("Sibling", "Partner"): sorted([pa, pb]) else: pa, pb

OrderEndpoints(type, pa, pb) ==
    IF type \in {"Sibling", "Partner"} THEN Sorted2(pa, pb) ELSE <<pa, pb>>

\* ------------------------------------------------------- SQL statements

\* SELECT 1 FROM people WHERE name = ?; INSERT INTO people if no row.
EnsurePersonExists(ps, name) == IF name \in ps THEN ps ELSE ps \cup {name}

\* SELECT 1 FROM relationships WHERE person_a = ? OR person_b = ?
HasRelationship(es, name) == \E e \in es : e[2] = name \/ e[3] = name

\* Variant: the person is deleted without looking at the relationships.
DeletePersonAlways(ps, es, name) == ps \ {name}

\* Variant: the person is never deleted.
DeletePersonNever(ps, es, name) == ps

\* DELETE FROM people WHERE name = ?   if no relationship row names it.

DeletePersonIfLonely(ps, es, name) ==
    IF ~HasRelationship(es, name) THEN ps \ {name} ELSE ps

\* Variant: INSERT OR REPLACE under a UNIQUE(person_a, person_b): the row
\* takes the place of any row stored for the same two endpoints.
InsertOrReplacePair(es, row) ==
    {e \in es : ~(e[2] = row[2] /\ e[3] = row[3])} \cup {row}

\* INSERT OR IGNORE INTO relationships (type, person_a, person_b)
InsertOrIgnore(es, row) == es \cup {row}

\* Variant: the type is not part of the WHERE clause.
DeleteTypedAnyKind(es, type, p1, p2) == {e \in es : ~(e[2] = p1 /\ e[3] = p2)}

\* DELETE FROM relationships WHERE type = ? AND person_a = ? AND person_b = ?
DeleteTyped(es, type, p1, p2) == es \ {<<type, p1, p2>>}

\* Variant: only the rows stored in the orientation given are deleted.
DeleteBetweenOneWay(es, p1, p2) == {e \in es : ~(e[2] = p1 /\ e[3] = p2)}

\* DELETE FROM relationships WHERE (person_a = p1 AND person_b = p2)
\*                              OR (person_a = p2 AND person_b = p1)
DeleteBetween(es, p1, p2) ==
    {e \in es : ~((e[2] = p1 /\ e[3] = p2) \/ (e[2] = p2 /\ e[3] = p1))}

\* ------------------------------------------------------------ operations

\* The tables as one value, with the exception (if any) the call raised.
Store(ps, es) == [people |-> ps, edges |-> es, err |-> "none"]

\* for person in set_a | set_b: self._ensure_person_exists(person)
RECURSIVE EnsureAll(_, _)
EnsureAll(ps, S) ==
    IF S = {} THEN ps
    ELSE LET n == CHOOSE x \in S : TRUE
         IN  EnsureAll(EnsurePersonExists(ps, n), S \ {n})

\* Variant: a plain INSERT, which the UNIQUE constraint rejects for a row
\* already stored.
AddPairNoIgnore(st, type, pa, pb) ==
    IF pa = pb
    THEN [st EXCEPT !.err = "ValueError"]
    ELSE LET p == OrderEndpoints(type, pa, pb)
         IN  IF <<type, p[1], p[2]>> \in st.edges
             THEN [st EXCEPT !.err = "IntegrityError"]
             ELSE [st EXCEPT !.edges = InsertOrIgnore(@, <<type, p[1], p[2]>>)]

\* Variant: the pair is not compared before the insert.
AddPairNoSelfCheck(st, type, pa, pb) ==
    LET p == OrderEndpoints(type, pa, pb)
    IN  [st EXCEPT !.edges = InsertOrIgnore(@, <<type, p[1], p[2]>>)]

\* One turn of add_relationship's inner loop body for the pair (pa, pb).
AddPair(st, type, pa, pb) ==
    IF pa = pb
    THEN [st EXCEPT !.err = "ValueError"]
    ELSE LET p == OrderEndpoints(type, pa, pb)
         IN  [st EXCEPT !.edges = InsertOrIgnore(@, <<type, p[1], p[2]>>)]

\* The nested loops over the pairs; a raise ends the call where it stands.
RECURSIVE AddLoop(_, _, _)
AddLoop(st, type, pairs) ==
    IF pairs = <<>> THEN st
    ELSE LET nx == AddPair(st, type, Head(pairs)[1], Head(pairs)[2])
         IN  IF nx.err # "none" THEN nx ELSE AddLoop(nx, type, Tail(pairs))

\* add_relationship(type, a, b), the sets being iterated in orders oa, ob.
AddRelationship(ps, es, type, set_a, set_b, oa, ob) ==
    AddLoop(Store(EnsureAll(ps, set_a \cup set_b), es), type, Pairs(oa, ob))

\* One turn of remove_relationship's inner loop body for the pair (pa, pb).
RemovePair(st, type, pa, pb) ==
    IF pa = pb
    THEN [st EXCEPT !.err = "ValueError"]
    ELSE LET p   == OrderEndpoints(type, pa, pb)
             es1 == IF type # NoneType
                    THEN DeleteTyped(st.edges, type, p[1], p[2])
                    ELSE DeleteBetween(st.edges, p[1], p[2])
             ps1 == DeletePersonIfLonely(st.people, es1, pa)
             ps2 == DeletePersonIfLonely(ps1, es1, pb)
         IN  [st EXCEPT !.edges = es1, !.people = ps2]

RECURSIVE RemoveLoop(_, _, _)
RemoveLoop(st, type, pairs) ==
    IF pairs = <<>> THEN st
    ELSE LET nx == RemovePair(st, type, Head(pairs)[1], Head(pairs)[2])
         IN  IF nx.err # "none" THEN nx ELSE RemoveLoop(nx, type, Tail(pairs))

\* remove_relationship(a, b, type), the sets being iterated in orders oa, ob.
RemoveRelationship(ps, es, type, set_a, set_b, oa, ob) ==
    RemoveLoop(Store(ps, es), type, Pairs(oa, ob))

\* --------------------------------------------------------------- queries

\* Variant: the mapping gets an entry only for a person with a parent row.
parents_ofSkipEmpty(es, S) ==
    [p \in {q \in S : \E x \in es : x[1] = "Parent" /\ x[3] = q} |->
        {e[2] : e \in {x \in es : x[1] = "Parent" /\ x[3] = p}}]

\* SELECT person_a FROM relationships WHERE type = 'Parent' AND person_b = ?
parents_of(es, S) ==
    [p \in S |-> {e[2] : e \in {x \in es : x[1] = "Parent" /\ x[3] = p}}]

\* SELECT person_b FROM relationships WHERE type = 'Parent' AND person_a = ?
children_of(es, S) ==
    [p \in S |-> {e[3] : e \in {x \in es : x[1] = "Parent" /\ x[2] = p}}]

\* SELECT person_a, person_b ... WHERE type = ? AND (person_a = ? OR
\* person_b = ?); result.add(b if a == p else a)
OtherEndpoints(es, type, S) ==
    [p \in S |-> {IF e[2] = p THEN e[3] ELSE e[2] :
                    e \in {x \in es : x[1] = type /\ (x[2] = p \/ x[3] = p)}}]

siblings_of(es, S) == OtherEndpoints(es, "Sibling", S)

partner_of(es, S) == OtherEndpoints(es, "Partner", S)

Queries == {"parents_of", "children_of", "siblings_of", "partner_of"}

RunQuery(q, es, S) ==
    CASE q = "parents_of"  -> parents_of(es, S)
      [] q = "children_of" -> children_of(es, S)
      [] q = "siblings_of" -> siblings_of(es, S)
      [] q = "partner_of"  -> partner_of(es, S)

\* ------------------------------------------------------------------ state

VARIABLES
    people,     \* rows of table people, as the open connection sees them
    edges,      \* rows of table relationships, as the open connection sees them
    committed,  \* the tables as the database file holds them
    conn,       \* "new", then "open" between __enter__ and __exit__, then "closed"
    calls,      \* add / remove / query calls made so far
    plain,      \* every call so far was plain
    last        \* the call that led to this state, its arguments and outcome

vars == <<people, edges, committed, conn, calls, plain, last>>

NoResult == [p \in {} |-> {}]

\* A plain call: str arguments and a kind the type hint allows.
IsPlain(type, a, b) == a.isStr /\ b.isStr /\ type \notin OtherKinds

\* The bound on calls: n of any shape, MaxPlainCalls if all are plain.
MayCall(isPlain, n) ==
    \/ calls < n
    \/ plain /\ isPlain /\ calls < MaxPlainCalls

Call(op, type, set_a, set_b, err, result) ==
    [op |-> op, type |-> type, a |-> set_a, b |-> set_b, err |-> err,
     prePeople |-> people, preEdges |-> edges, result |-> result]

Init ==
    /\ people = {}
    /\ edges = {}
    /\ committed = [people |-> {}, edges |-> {}]
    /\ conn = "new"
    /\ calls = 0
    /\ plain = TRUE
    /\ last = [op |-> "init", type |-> NoneType, a |-> {}, b |-> {}, err |-> "none",
               prePeople |-> {}, preEdges |-> {}, result |-> NoResult]

\* __enter__: connect; the schema is created if absent.  A store instance
\* owns one connection for its lifetime: the with block is entered once.
Enter ==
    /\ conn = "new"
    /\ conn' = "open"
    /\ people' = committed.people
    /\ edges' = committed.edges
    /\ last' = Call("enter", NoneType, {}, {}, "none", NoResult)
    /\ UNCHANGED <<committed, calls, plain>>

\* Variant: __exit__ commits whether or not an exception is leaving.
ExitErrorCommit ==
    /\ conn = "open"
    /\ conn' = "closed"
    /\ committed' = [people |-> people, edges |-> edges]
    /\ last' = Call("exit", NoneType, {}, {}, "raised", NoResult)
    /\ UNCHANGED <<people, edges, calls, plain>>

\* __exit__ with exc_type None: commit, close.
ExitClean ==
    /\ conn = "open"
    /\ conn' = "closed"
    /\ committed' = [people |-> people, edges |-> edges]
    /\ last' = Call("exit", NoneType, {}, {}, "none", NoResult)
    /\ UNCHANGED <<people, edges, calls, plain>>

\* __exit__ with an exception leaving the with block: close without commit;
\* SQLite rolls the open transaction back.
ExitError ==
    /\ conn = "open"
    /\ conn' = "closed"
    /\ people' = committed.people
    /\ edges' = committed.edges
    /\ last' = Call("exit", NoneType, {}, {}, "raised", NoResult)
    /\ UNCHANGED <<committed, calls, plain>>

\* tree.add_relationship(type, a, b); a raised ValueError is caught by the
\* caller inside the with block (or leaves it: ExitError follows).
\* n bounds the calls of any shape.
AddRelWithin(n) ==
    /\ conn = "open"
    /\ MayCall(TRUE, n)
    /\ \E type \in RelationshipType \cup OtherKinds, a \in Args, b \in Args :
         /\ MayCall(IsPlain(type, a, b), n)
         /\ plain' = (plain /\ IsPlain(type, a, b))
         /\ \E oa \in IterOrders(ToSet(a)), ob \in IterOrders(ToSet(b)) :
            LET r == AddRelationship(people, edges, type, ToSet(a), ToSet(b), oa, ob)
            IN  /\ people' = r.people
                /\ edges' = r.edges
                /\ last' = Call("add", type, ToSet(a), ToSet(b), r.err, NoResult)
    /\ calls' = calls + 1
    /\ UNCHANGED <<committed, conn>>

\* tree.remove_relationship(a, b, type)
\* n bounds the calls of any shape.
RemoveRelWithin(n) ==
    /\ conn = "open"
    /\ MayCall(TRUE, n)
    /\ \E type \in RelationshipType \cup OtherKinds \cup {NoneType}, a \in Args, b \in Args :
         /\ MayCall(IsPlain(type, a, b), n)
         /\ plain' = (plain /\ IsPlain(type, a, b))
         /\ \E oa \in IterOrders(ToSet(a)), ob \in IterOrders(ToSet(b)) :
            LET r == RemoveRelationship(people, edges, type, ToSet(a), ToSet(b), oa, ob)
            IN  /\ people' = r.people
                /\ edges' = r.edges
                /\ last' = Call("remove", type, ToSet(a), ToSet(b), r.err, NoResult)
    /\ calls' = calls + 1
    /\ UNCHANGED <<committed, conn>>

\* tree.parents_of / children_of / siblings_of / partner_of (person)
\* n bounds the calls of any shape.
QueryWithin(n) ==
    /\ conn = "open"
    /\ MayCall(TRUE, n)
    /\ \E q \in Queries, a \in Args :
         /\ MayCall(a.isStr, n)
         /\ plain' = (plain /\ a.isStr)
         /\ last' = Call(q, NoneType, ToSet(a), {}, "none", RunQuery(q, edges, ToSet(a)))
    /\ calls' = calls + 1
    /\ UNCHANGED <<people, edges, committed, conn>>

AddRel == AddRelWithin(MaxCalls)

RemoveRel == RemoveRelWithin(MaxCalls)

Query == QueryWithin(MaxCalls)

Next == Enter \/ ExitClean \/ ExitError \/ AddRel \/ RemoveRel \/ Query

Spec == Init /\ [][Next]_vars

\* The same store and calls, with MaxBulkCalls calls of any shape: a bulk
\* call can follow another call.
BulkAddRel == AddRelWithin(MaxBulkCalls)

BulkRemoveRel == RemoveRelWithin(MaxBulkCalls)

BulkQuery == QueryWithin(MaxBulkCalls)

NextBulk == Enter \/ ExitClean \/ ExitError \/ BulkAddRel \/ BulkRemoveRel \/ BulkQuery

SpecBulk == Init /\ [][NextBulk]_vars

\* The same store used through several with blocks, one after the other:
\* __enter__ on an instance whose connection was closed connects again, to
\* the tables as the database file holds them.
Reenter ==
    /\ conn = "closed"
    /\ conn' = "open"
    /\ people' = committed.people
    /\ edges' = committed.edges
    /\ last' = Call("enter", NoneType, {}, {}, "none", NoResult)
    /\ UNCHANGED <<committed, calls, plain>>

\* The calls of Spec, MaxScopeCalls of them over all the with blocks.
ScopeAddRel == calls < MaxScopeCalls /\ AddRel

ScopeRemoveRel == calls < MaxScopeCalls /\ RemoveRel

ScopeQuery == calls < MaxScopeCalls /\ Query

NextScopes ==
    \/ Enter \/ Reenter \/ ExitClean \/ ExitError
    \/ ScopeAddRel \/ ScopeRemoveRel \/ ScopeQuery

SpecScopes == Init /\ [][NextScopes]_vars

\* The demo of src/app/app.py as a script, its literals made inputs: inside
\* one with block a Parent call on two sets, a Sibling call and a Partner
\* call on two identifiers each, then the four queries in the demo's order,
\* one person each.  Nothing in the script catches an exception: a raised
\* ValueError leaves the with block.  `calls` is the position in the script.
DemoSets == {S \in SUBSET DemoNames : 1 <= Cardinality(S) /\ Cardinality(S) <= MaxSetSize}

DemoQueries == <<"parents_of", "children_of", "siblings_of", "partner_of">>

Running == conn = "open" /\ last.err = "none"

\* tree.add_relationship("Parent", {...}, {...})
DemoParents ==
    /\ Running
    /\ calls = 0
    /\ \E SA \in DemoSets, SB \in DemoSets :
         \E oa \in IterOrders(SA), ob \in IterOrders(SB) :
            LET r == AddRelationship(people, edges, "Parent", SA, SB, oa, ob)
            IN  /\ people' = r.people
                /\ edges' = r.edges
                /\ last' = Call("add", "Parent", SA, SB, r.err, NoResult)
    /\ calls' = calls + 1
    /\ UNCHANGED <<committed, conn, plain>>

\* tree.add_relationship(type, p, q) on two identifiers
DemoAddPair(type) ==
    /\ Running
    /\ \E p \in DemoNames, q \in DemoNames :
         LET r == AddRelationship(people, edges, type, {p}, {q}, <<p>>, <<q>>)
         IN  /\ people' = r.people
             /\ edges' = r.edges
             /\ last' = Call("add", type, {p}, {q}, r.err, NoResult)
    /\ calls' = calls + 1
    /\ UNCHANGED <<committed, conn, plain>>

DemoSibling == calls = 1 /\ DemoAddPair("Sibling")

DemoPartner == calls = 2 /\ DemoAddPair("Partner")

\* print(tree.parents_of(p)) ... print(tree.partner_of(p))
DemoQuery ==
    /\ Running
    /\ calls - 2 \in DOMAIN DemoQueries
    /\ \E p \in DemoNames :
         last' = Call(DemoQueries[calls - 2], NoneType, {p}, {}, "none",
                      RunQuery(DemoQueries[calls - 2], edges, {p}))
    /\ calls' = calls + 1
    /\ UNCHANGED <<people, edges, committed, conn, plain>>

\* The with block ends after the last print.
DemoExitClean == Running /\ calls = 3 + Len(DemoQueries) /\ ExitClean

\* The with block is left by the exception a call raised.
DemoExitError == last.err = "ValueError" /\ ExitError

NextDemo ==
    \/ Enter \/ DemoParents \/ DemoSibling \/ DemoPartner \/ DemoQuery
    \/ DemoExitClean \/ DemoExitError

SpecDemo == Init /\ [][NextDemo]_vars

\* ----------------------------------------------------------------- claims

\* What the claims below read off the last call.
IsAdd == last.op = "add"

IsRemove == last.op = "remove"

\* The last call passed one identifier on each side, and they differ.
TwoPeople == Cardinality(last.a) = 1 /\ Cardinality(last.b) = 1 /\ last.a # last.b

TheA == CHOOSE n \in last.a : TRUE

TheB == CHOOSE n \in last.b : TRUE

Incident(es, p) == {e \in es : e[2] = p \/ e[3] = p}

\* Every identifier any of the four queries returns for any queried person.
Queried(es) ==
    UNION {RunQuery(q, es, Names)[p] : q \in Queries, p \in Names}

\* C1: no person record exists unless it is an endpoint of a stored edge.
C1_NoLonelyPerson == \A p \in people : HasRelationship(edges, p)

\* C2: both endpoints of every stored edge exist as person records.
C2_EndpointsExist == \A e \in edges : e[2] \in people /\ e[3] \in people

\* C2 witness: a typed removal deleted an edge between two people who are
\* still joined by an edge of another kind, so pruning had to spare both.
C2_Witness ==
    /\ IsRemove /\ TwoPeople /\ last.err = "none"
    /\ edges # last.preEdges
    /\ \E e \in edges : e[1] # last.type /\ {e[2], e[3]} = last.a \cup last.b

\* C3: add_relationship(K, A, A) fails with the self-relationship error and
\* leaves the person set and the edge set as they were.
C3_SelfAddNoEffect ==
    (IsAdd /\ Cardinality(last.a) = 1 /\ last.a = last.b) =>
        /\ last.err = "ValueError"
        /\ people = last.prePeople
        /\ edges = last.preEdges

\* The rows a bulk add stores for the pairs of a x b that are not self-pairs.
NonSelfRows(type, set_a, set_b) ==
    {<<type, OrderEndpoints(type, pa, pb)[1], OrderEndpoints(type, pa, pb)[2]>> :
        <<pa, pb>> \in {pr \in set_a \X set_b : pr[1] # pr[2]}}

\* C4: a bulk add whose cross product holds a self-pair either leaves the
\* edge set unchanged or has inserted every non-self pair; it never stops
\* with only some of them inserted.
C4_BulkSelfPairPolicy ==
    (IsAdd /\ last.a \cap last.b # {}) =>
        \/ edges = last.preEdges
        \/ edges = last.preEdges \cup NonSelfRows(last.type, last.a, last.b)

\* C5: a kind outside the Literal is refused with an error and nothing is
\* stored, so every stored edge has a kind of the Literal.
C5_KindsClosed ==
    /\ (last.op \in {"add", "remove"} /\ TwoPeople /\ last.type \in OtherKinds) =>
            /\ last.err = "UnknownRelationshipKind"
            /\ people = last.prePeople
            /\ edges = last.preEdges
    /\ \A e \in edges : e[1] \in RelationshipType

\* C6: after a removal, a person whose only incident edge was removed is in
\* no person record and no query result; a person who had two or more
\* incident edges and lost one only is still a person record.
C6_OrphanPruning ==
    IsRemove =>
        \A p \in Names :
            LET before == Incident(last.preEdges, p)
                after  == Incident(edges, p)
            IN  /\ (Cardinality(before) = 1 /\ after = {}) =>
                        (p \notin people /\ p \notin Queried(edges))
                /\ (Cardinality(before) >= 2 /\ Cardinality(before \ after) = 1) =>
                        p \in people

\* C6 witness: one removal took the only edge of one person (a record
\* before the call) and one of several edges of another.
C6_Witness ==
    /\ IsRemove
    /\ \E p, q \in Names :
        /\ p \in last.prePeople
        /\ Cardinality(Incident(last.preEdges, p)) = 1
        /\ Incident(edges, p) = {}
        /\ Cardinality(Incident(last.preEdges, q)) >= 2
        /\ Cardinality(Incident(last.preEdges, q) \ Incident(edges, q)) = 1

\* C7: after add_relationship(K, A, B) from a state without that edge,
\* remove_relationship(A, B, K) gives back the state before the add: the same
\* edges, the same people, the query for K empty again between A and B.
C7_RoundTrip ==
    (/\ IsAdd /\ TwoPeople /\ last.err = "none"
     /\ last.type \in RelationshipType
     /\ edges # last.preEdges) =>
        LET r == RemoveRelationship(people, edges, last.type, last.a, last.b,
                                    <<TheA>>, <<TheB>>)
        IN  /\ r.err = "none"
            /\ r.edges = last.preEdges
            /\ r.people = last.prePeople

\* C8: a second add_relationship with the arguments of a first that
\* succeeded raises nothing and leaves people and edges (hence every query
\* result) as the first call left them, in whatever order the sets are
\* iterated.
C8_AddIdempotent ==
    (IsAdd /\ last.err = "none") =>
        \A oa \in IterOrders(last.a), ob \in IterOrders(last.b) :
            LET r == AddRelationship(people, edges, last.type, last.a, last.b, oa, ob)
            IN  /\ r.err = "none"
                /\ r.people = people
                /\ r.edges = edges
                /\ \A q \in Queries : RunQuery(q, r.edges, Names) = RunQuery(q, edges, Names)

\* C8 witness: a bulk add that stored rows.
C8_Witness ==
    /\ IsAdd /\ last.err = "none"
    /\ Cardinality(last.a) = 2
    /\ Cardinality(edges \ last.preEdges) = 2

\* The query that goes with a symmetric kind.
SymQuery(type, es, S) == IF type = "Sibling" THEN siblings_of(es, S) ELSE partner_of(es, S)

\* C9: for a symmetric kind K and A # B, add(K, A, B) gives the state that
\* add(K, B, A) gives from the same start, adding the other afterwards
\* changes nothing, one row joins A and B, the matching query returns A for B
\* and B for A, and no query result holds the queried person.
C9_Symmetry ==
    (IsAdd /\ TwoPeople /\ last.type \in {"Sibling", "Partner"}) =>
        LET K   == last.type
            rev == AddRelationship(last.prePeople, last.preEdges, K, last.b, last.a,
                                   <<TheB>>, <<TheA>>)
            nxt == AddRelationship(people, edges, K, last.b, last.a, <<TheB>>, <<TheA>>)
        IN  /\ last.err = "none"
            /\ rev = Store(people, edges)
            /\ nxt = Store(people, edges)
            /\ Cardinality({e \in edges : e[1] = K /\ {e[2], e[3]} = {TheA, TheB}}) = 1
            /\ TheA \in SymQuery(K, edges, {TheB})[TheB]
            /\ TheB \in SymQuery(K, edges, {TheA})[TheA]
            /\ \A p \in Names : p \notin SymQuery(K, edges, Names)[p]

\* C9 witness: a symmetric add given its endpoints in descending order.
C9_Witness ==
    /\ IsAdd /\ TwoPeople /\ last.type = "Sibling"
    /\ Rank(TheA) > Rank(TheB)
    /\ edges # last.preEdges

\* C10: after add_relationship(Parent, A, B) with A # B, children_of(A) holds
\* B and parents_of(B) holds A; the row stored is (Parent, A, B) and no other;
\* if (Parent, B, A) was absent before, children_of(B) does not hold A and
\* parents_of(A) does not hold B.
C10_Directionality ==
    (IsAdd /\ TwoPeople /\ last.type = "Parent") =>
        /\ last.err = "none"
        /\ TheB \in children_of(edges, {TheA})[TheA]
        /\ TheA \in parents_of(edges, {TheB})[TheB]
        /\ edges = last.preEdges \cup {<<"Parent", TheA, TheB>>}
        /\ <<"Parent", TheB, TheA>> \notin last.preEdges =>
                /\ TheA \notin children_of(edges, {TheB})[TheB]
                /\ TheB \notin parents_of(edges, {TheA})[TheA]

\* C10 witness: a Parent add whose parent sorts after the child, the
\* opposite edge being absent.
C10_Witness ==
    /\ IsAdd /\ TwoPeople /\ last.type = "Parent"
    /\ Rank(TheA) > Rank(TheB)
    /\ <<"Parent", TheB, TheA>> \notin edges
    /\ edges # last.preEdges

\* The rows that join the two people p and q, in either orientation.
Between(es, p, q) == {e \in es : {e[2], e[3]} = {p, q}}

\* C11: remove_relationship(a, b) without a kind, a # b, deletes every row
\* that joins a and b, of every kind and in both orientations, and no row
\* with another endpoint; afterwards no query on a returns b or on b
\* returns a.
C11_RemoveAllKinds ==
    (IsRemove /\ TwoPeople /\ last.type = NoneType) =>
        /\ last.err = "none"
        /\ edges = last.preEdges \ Between(last.preEdges, TheA, TheB)
        /\ \A q \in Queries :
              /\ TheB \notin RunQuery(q, edges, {TheA})[TheA]
              /\ TheA \notin RunQuery(q, edges, {TheB})[TheB]

\* C11 witness: one untyped removal deleted rows of two kinds, one stored
\* as (a, b) and one stored as (b, a).
C11_Witness ==
    /\ IsRemove /\ TwoPeople /\ last.type = NoneType
    /\ \E e, f \in last.preEdges \ edges :
          /\ e[1] # f[1]
          /\ e[2] = TheA /\ e[3] = TheB
          /\ f[2] = TheB /\ f[3] = TheA

\* The row under which the edge of kind K between a and b is stored.
CanonRow(K, a, b) ==
    IF K \in {"Sibling", "Partner"}
    THEN IF Rank(a) < Rank(b) THEN <<K, a, b>> ELSE <<K, b, a>>
    ELSE <<K, a, b>>

\* C12: remove_relationship(a, b, K) with a kind of the Literal, a # b,
\* raises nothing and deletes the one row of the edge (K, a, b), whichever
\* way round the arguments of a symmetric kind are given, and no other row;
\* when that row is not stored, people and edges are left as they were.
C12_RemoveTyped ==
    (IsRemove /\ TwoPeople /\ last.type \in RelationshipType) =>
        /\ last.err = "none"
        /\ edges = last.preEdges \ {CanonRow(last.type, TheA, TheB)}
        /\ CanonRow(last.type, TheA, TheB) \notin last.preEdges =>
                people = last.prePeople

\* C12 without its last sentence: the rows a typed removal deletes.
C12_RemoveTypedRows ==
    (IsRemove /\ TwoPeople /\ last.type \in RelationshipType) =>
        /\ last.err = "none"
        /\ edges = last.preEdges \ {CanonRow(last.type, TheA, TheB)}

IsQuery == last.op \in Queries

\* The people a query is to return for p, read off the rows.
Related(q, es, p) ==
    CASE q = "parents_of"  -> {x \in Names : <<"Parent", x, p>> \in es}
      [] q = "children_of" -> {x \in Names : <<"Parent", p, x>> \in es}
      [] q = "siblings_of" -> {x \in Names \ {p} : CanonRow("Sibling", p, x) \in es}
      [] q = "partner_of"  -> {x \in Names \ {p} : CanonRow("Partner", p, x) \in es}

\* C15: a query raises nothing and returns a mapping with one entry for
\* each queried identifier and no other, the entry holding the related
\* people, the empty set for an identifier that is no person record; people
\* and edges are as before the query.
C15_QueriesTotal ==
    IsQuery =>
        /\ last.err = "none"
        /\ DOMAIN last.result = last.a
        /\ \A p \in last.a :
              /\ last.result[p] = Related(last.op, edges, p)
              /\ p \notin people => last.result[p] = {}
        /\ people = last.prePeople
        /\ edges = last.preEdges

\* C15 witness: a store with rows is asked for a person it has no record
\* of, and answers with the empty set.
C15_Witness ==
    /\ IsQuery
    /\ edges # {}
    /\ \E p \in last.a : p \notin people /\ last.result[p] = {}

\* C16: every stored Sibling or Partner row has person_a strictly before
\* person_b in string order, so one row at most joins two people under a
\* symmetric kind; no stored row has person_a equal to person_b.  (The rows
\* are a set, as UNIQUE(type, person_a, person_b) has it.)
C16_CanonicalStorage ==
    /\ \A e \in edges :
          /\ e[2] # e[3]
          /\ e[1] \in {"Sibling", "Partner"} => Rank(e[2]) < Rank(e[3])
    /\ \A e, f \in edges :
          (e[1] = f[1] /\ e[1] \in {"Sibling", "Partner"}
             /\ {e[2], e[3]} = {f[2], f[3]}) => e = f

\* C16 witness: a Partner row stored for endpoints given in descending order.
C16_Witness ==
    /\ IsAdd /\ TwoPeople /\ last.type = "Partner"
    /\ Rank(TheA) > Rank(TheB)
    /\ <<"Partner", TheB, TheA>> \in edges \ last.preEdges

\* The kind whose rows a query reads.
KindOf(q) ==
    CASE q \in {"parents_of", "children_of"} -> "Parent"
      [] q = "siblings_of" -> "Sibling"
      [] q = "partner_of"  -> "Partner"

\* C18: add_relationship(K, A, B) with A # B stores at most the one row of
\* the edge (K, A, B): every row and every person stored before is still
\* stored, and the queries of the other kinds answer as before for everyone.
C18_AddKindIsolation ==
    (IsAdd /\ TwoPeople) =>
        /\ last.preEdges \subseteq edges
        /\ edges \ last.preEdges \subseteq {CanonRow(last.type, TheA, TheB)}
        /\ last.prePeople \subseteq people
        /\ \A q \in Queries :
              KindOf(q) # last.type =>
                  RunQuery(q, edges, Names) = RunQuery(q, last.preEdges, Names)

\* C18 witness: a row of a new kind is stored between two people already
\* joined by a row of another kind.
C18_Witness ==
    /\ IsAdd /\ TwoPeople
    /\ edges # last.preEdges
    /\ \E e \in last.preEdges : e[1] # last.type /\ {e[2], e[3]} = {TheA, TheB}

\* C17: a remove_relationship whose cross product holds a self-pair raises
\* the self-relationship error and leaves people and edges as they were,
\* in whatever order the pairs are visited.  (Stated for calls made in a
\* state where every person has an edge, so that no person record left
\* alone by an earlier add is involved.)
C17_SelfRemoveNoEffect ==
    (/\ IsRemove /\ last.a \cap last.b # {}
     /\ \A p \in last.prePeople : HasRelationship(last.preEdges, p)) =>
        /\ last.err = "ValueError"
        /\ people = last.prePeople
        /\ edges = last.preEdges

\* The rows (Parent, pa, pb) of the cross product SA x SB.
CartesianRows(SA, SB) == {<<"Parent", pa, pb>> : pa \in SA, pb \in SB}

\* The rows the demo's three calls store.
DemoParentRows ==
    {<<"Parent", "Alice", "Bob">>, <<"Parent", "Alice", "Charlie">>,
     <<"Parent", "David", "Bob">>, <<"Parent", "David", "Charlie">>}

DemoSiblingRows == DemoParentRows \cup {<<"Sibling", "Bob", "Charlie">>}

DemoRows == DemoSiblingRows \cup {<<"Partner", "Alice", "David">>}

LastCallIs(op, type, SA, SB, es) ==
    /\ last.op = op /\ last.type = type /\ last.a = SA /\ last.b = SB
    /\ last.preEdges = es

\* C13: on the empty store add_relationship(Parent, SA, SB) with SA and SB
\* disjoint and non-empty stores exactly the |SA| * |SB| rows (Parent, pa, pb),
\* so parents_of(pb) = SA for pb in SB and children_of(pa) = SB for pa in SA;
\* and each call of the demo sequence, made in the store the calls before it
\* leave, leaves the next store of the sequence, in which the four queries
\* give {Alice, David}, {Bob, Charlie}, {Charlie} and {David}.
C13_CartesianProduct ==
    /\ (/\ IsAdd /\ last.type = "Parent" /\ last.preEdges = {}
        /\ last.a # {} /\ last.b # {} /\ last.a \cap last.b = {}) =>
            /\ last.err = "none"
            /\ edges = CartesianRows(last.a, last.b)
            /\ Cardinality(edges) = Cardinality(last.a) * Cardinality(last.b)
            /\ \A pb \in last.b : parents_of(edges, {pb})[pb] = last.a
            /\ \A pa \in last.a : children_of(edges, {pa})[pa] = last.b
    /\ LastCallIs("add", "Parent", {"Alice", "David"}, {"Bob", "Charlie"}, {}) =>
            edges = DemoParentRows
    /\ LastCallIs("add", "Sibling", {"Bob"}, {"Charlie"}, DemoParentRows) =>
            edges = DemoSiblingRows
    /\ LastCallIs("add", "Partner", {"Alice"}, {"David"}, DemoSiblingRows) =>
            edges = DemoRows
    /\ LastCallIs("parents_of", NoneType, {"Bob"}, {}, DemoRows) =>
            last.result = [p \in {"Bob"} |-> {"Alice", "David"}]
    /\ LastCallIs("children_of", NoneType, {"Alice"}, {}, DemoRows) =>
            last.result = [p \in {"Alice"} |-> {"Bob", "Charlie"}]
    /\ LastCallIs("siblings_of", NoneType, {"Bob"}, {}, DemoRows) =>
            last.result = [p \in {"Bob"} |-> {"Charlie"}]
    /\ LastCallIs("partner_of", NoneType, {"Alice"}, {}, DemoRows) =>
            last.result = [p \in {"Alice"} |-> {"David"}]

\* The demo has run to its last query: the store holds the six rows of the
\* three calls and partner_of("Alice") has answered.
C13_Witness ==
    /\ LastCallIs("partner_of", NoneType, {"Alice"}, {}, DemoRows)
    /\ edges = DemoRows
    /\ people = DemoNames
    /\ Cardinality({e \in edges : e[1] = "Parent"}) = 4

\* C14: one with block is one unit of work: nothing is persisted while the
\* block is open; a clean exit makes the tables as the block left them the
\* persisted state; an exit by an exception leaves the persisted state what
\* it was when the block was entered, and the block's mutations are gone.
C14_ScopeAllOrNothing ==
    [][/\ (conn' = "open") =>
              /\ committed' = committed
              /\ (conn # "open" => people' = committed.people /\ edges' = committed.edges)
       /\ (conn = "open" /\ conn' = "closed" /\ last'.err = "none") =>
              /\ committed' = [people |-> people, edges |-> edges]
              /\ people' = people /\ edges' = edges
       /\ (conn = "open" /\ conn' = "closed" /\ last'.err = "raised") =>
              /\ committed' = committed
              /\ people' = committed.people /\ edges' = committed.edges]_vars

\* A second with block changed the edges of a store that persisted some, and
\* was left by an exception: the tables are the persisted ones again.
C14_Witness ==
    /\ last.op = "exit" /\ last.err = "raised"
    /\ committed.edges # {}
    /\ last.preEdges # committed.edges
    /\ edges = committed.edges /\ people = committed.people

====
